---- MODULE Spec2Model ----
(***************************************************************************)
(* RoadWatch (src/src/roadwatch/watch.py): a polling file watcher.         *)
(* A FileWatcher keeps the previous capture of a directory in _snapshots,  *)
(* and every cycle scans the directory again, diffs the two captures into  *)
(* created / deleted / modified events and stores the new capture.         *)
(* Cycles are driven by poll_once() on the caller's thread or by the       *)
(* _poll loop on a thread spawned by start().                              *)
(***************************************************************************)
EXTENDS Integers, Sequences, FiniteSets, TLC

(* ------------------------------ bounds --------------------------------- *)

\* Modification times range over 0..MaxMtime (0 is the epoch).
MaxMtime == 1

\* start() spawns at most MaxThreads loop threads in one behaviour.
MaxThreads == 2

\* poll_once() calls are counted up to MaxPolls (the counter saturates).
MaxPolls == 2

\* Each list of the handler registry holds at most MaxHandlers callbacks.
MaxHandlers == 2

\* MultiWatcher.watch() adds at most MaxWatchers sessions to a group.
MaxWatchers == 2

(* --------------------------- the filesystem ---------------------------- *)

\* The entries the watched directory can hold.
Paths == {"a.txt", "b.log", "x.txt"}

\* The two names in use in the directory of a session with the default filter.
Names == {"a.txt", "x.txt"}

\* File contents, as byte sequences: b"" and b"A".
Contents == {<<>>, <<65>>}

Mtimes == 0..MaxMtime

\* A directory entry that does not exist.
NoFile == [exists |-> FALSE, content |-> <<>>, mtime |-> 0]

\* The states of one directory entry: absent, or a regular file.
Entries ==
    {NoFile} \cup [exists : {TRUE}, content : Contents, mtime : Mtimes]

\* hashlib.md5(bytes).hexdigest() on the contents of the model.
md5(c) ==
    CASE c = <<>>   -> "d41d8cd98f00b204e9800998ecf8427e"
      [] c = <<65>> -> "7fc56270e7a70fa81a5935b72eacbe29"
      [] c = <<66>> -> "9d5ed678fe57bcca610140957afab571"

(* ------------------------------ snapshots ------------------------------ *)

\* FileSnapshot.from_path on the entry e that path.exists() and path.stat()
\* see: a vanished path gives the exists=False record, a file gives its
\* st_size, st_mtime and, when compute_hash, the MD5 of its bytes.
from_path(e, compute_hash) ==
    IF ~e.exists
    THEN [size |-> 0, mtime |-> 0, hash |-> "", exists |-> FALSE]
    ELSE [size   |-> Len(e.content),
          mtime  |-> e.mtime,
          hash   |-> IF compute_hash THEN md5(e.content) ELSE "",
          exists |-> TRUE]

VARIABLES
    patterns,        \* FileWatcher.patterns: the include patterns
    ignore_patterns  \* FileWatcher.ignore_patterns: the exclude patterns

\* FileWatcher.__init__ defaults: patterns = ["*"], ignore_patterns = [].
DefaultPatterns == <<"*">>

DefaultIgnorePatterns == <<>>

\* The characters of the names and of the patterns of the model.
Chars(s) ==
    CASE s = "a.txt" -> <<"a", ".", "t", "x", "t">>
      [] s = "b.log" -> <<"b", ".", "l", "o", "g">>
      [] s = "x.txt" -> <<"x", ".", "t", "x", "t">>
      [] s = "*"     -> <<"*">>
      [] s = "*.txt" -> <<"*", ".", "t", "x", "t">>
      [] s = "*.log" -> <<"*", ".", "l", "o", "g">>
      [] s = "a.*"   -> <<"a", ".", "*">>

\* fnmatch of a name against a pattern: "*" stands for any run of
\* characters, every other character for itself.
RECURSIVE Glob(_, _)
Glob(name, pat) ==
    IF pat = <<>> THEN name = <<>>
    ELSE IF Head(pat) = "*"
    THEN Glob(name, Tail(pat)) \/ (name # <<>> /\ Glob(Tail(name), pat))
    ELSE name # <<>> /\ Head(name) = Head(pat) /\ Glob(Tail(name), Tail(pat))

\* Path.match(pattern) for a file directly in the watched directory and a
\* pattern without a separator: the name is matched against the pattern.
PathMatch(p, pattern) == Glob(Chars(p), Chars(pattern))

\* Faulty variant of _matches: the include patterns are tried first, so an
\* ignore pattern no longer overrides them.
_matches_include_first(p) ==
    \E i \in 1..Len(patterns) : PathMatch(p, patterns[i])

\* FileWatcher._matches: an ignore pattern rejects first, then any include
\* pattern accepts.
_matches(p) ==
    /\ \A i \in 1..Len(ignore_patterns) : ~PathMatch(p, ignore_patterns[i])
    /\ \E i \in 1..Len(patterns) : PathMatch(p, patterns[i])

\* A snapshot set with no entry.
NoSnapshots == [p \in {} |-> NoFile]

\* FileWatcher._scan on a directory root. listed is the filesystem that
\* glob() and p.is_file() see, statted the one from_path sees afterwards
\* (they differ when an entry vanishes in the middle of the scan).
_scan(listed, statted, compute_hash) ==
    [p \in {q \in Paths : listed[q].exists /\ _matches(q)} |->
        from_path(statted[p], compute_hash)]

(* ------------------------------- the diff ------------------------------ *)

EventType == {"created", "modified", "deleted", "moved"}

\* FileEvent(type=t, path=p).
FileEvent(t, p) == [type |-> t, path |-> p]

\* The orders in which a for loop can iterate over the Python set S.
IterationOrders(S) ==
    {s \in [1..Cardinality(S) -> S] : \A x \in S : \E i \in DOMAIN s : s[i] = x}

\* Faulty variant of IsModified: the two snapshot objects are compared by
\* identity, and two captures never share an object.
IsModified_identity(prev, curr, hashing) == TRUE

\* Faulty variant of IsModified: in metadata mode both mtime and size must
\* differ.
IsModified_and(prev, curr, hashing) ==
    IF hashing
    THEN prev.hash # curr.hash
    ELSE prev.mtime # curr.mtime /\ prev.size # curr.size

\* Faulty variant of IsModified: use_hash is ignored and metadata compared.
IsModified_metadata(prev, curr, hashing) ==
    prev.mtime # curr.mtime \/ prev.size # curr.size

\* The test of _check's third loop on a path present in both captures.
IsModified(prev, curr, hashing) ==
    IF hashing
    THEN prev.hash # curr.hash
    ELSE prev.mtime # curr.mtime \/ prev.size # curr.size

\* Faulty variant of _check: the first loop runs over every current path
\* instead of curr_paths - prev_paths.
_check_all_created(prev, current, hashing) ==
    LET prev_paths == DOMAIN prev
        curr_paths == DOMAIN current
        changed    == {p \in prev_paths \cap curr_paths :
                          IsModified(prev[p], current[p], hashing)}
    IN  {[i \in 1..Len(c) |-> FileEvent("created", c[i])]
           \o [i \in 1..Len(d) |-> FileEvent("deleted", d[i])]
           \o [i \in 1..Len(m) |-> FileEvent("modified", m[i])] :
            c \in IterationOrders(curr_paths),
            d \in IterationOrders(prev_paths \ curr_paths),
            m \in IterationOrders(changed)}

\* The event lists FileWatcher._check can return for the stored capture
\* prev and the new capture current: created, then deleted, then modified,
\* each loop in some iteration order of its set.
_check(prev, current, hashing) ==
    LET prev_paths == DOMAIN prev
        curr_paths == DOMAIN current
        changed    == {p \in prev_paths \cap curr_paths :
                          IsModified(prev[p], current[p], hashing)}
    IN  {[i \in 1..Len(c) |-> FileEvent("created", c[i])]
           \o [i \in 1..Len(d) |-> FileEvent("deleted", d[i])]
           \o [i \in 1..Len(m) |-> FileEvent("modified", m[i])] :
            c \in IterationOrders(curr_paths \ prev_paths),
            d \in IterationOrders(prev_paths \ curr_paths),
            m \in IterationOrders(changed)}

(* -------------------------------- state -------------------------------- *)

VARIABLES
    fs,          \* the watched directory: Paths -> Entries
    use_hash,    \* FileWatcher.use_hash
    snapshots,   \* FileWatcher._snapshots
    handlers,    \* FileWatcher._handlers: EventType -> list of callbacks
    running,     \* FileWatcher._running
    thread,      \* FileWatcher._thread: 0 (None) or the last thread spawned
    threads,     \* the loop threads spawned so far, each at a place in _poll
    ret,         \* the call on the session that has just returned, and its result
    npolls,      \* history: poll_once() calls that have returned (saturating)
    dirtyPoll,   \* history: the directory changed since the last poll_once() began
    phase,       \* history: "idle", then "running", then "stopped"
    group_handlers, \* MultiWatcher._handlers: EventType -> list of callbacks
    watchers     \* MultiWatcher._watchers: the _handlers of each member

vars ==
    <<fs, use_hash, snapshots, handlers, running, thread, threads, ret,
      npolls, dirtyPoll, phase, group_handlers, watchers, patterns,
      ignore_patterns>>

\* No call made yet.
NoCall ==
    [op |-> "none", events |-> <<>>, prev |-> NoSnapshots,
     curr |-> NoSnapshots, raised |-> FALSE, n |-> 0, quiet |-> FALSE,
     fresh |-> FALSE, noop |-> FALSE, etype |-> "-", handler |-> "-",
     calls |-> <<>>]

\* A thread that threading.Thread(target=self._poll).start() has just
\* spawned: about to run the first line of _poll.
NewThread ==
    [pc |-> "baseline", current |-> NoSnapshots, prev_paths |-> {},
     events |-> <<>>, delivered |-> <<>>, calls |-> <<>>, pristine |-> FALSE,
     born |-> {}]

\* The states of a directory in which only the names in names are in use.
Directories(names) ==
    {f \in [Paths -> Entries] : \A p \in Paths \ names : f[p] = NoFile}

\* FileWatcher.__init__(path, patterns=includes, ignore_patterns=ignores)
\* on a directory in any state.
NewWith(names, includes, ignores) ==
    /\ patterns = includes
    /\ ignore_patterns = ignores
    /\ fs \in Directories(names)
    /\ use_hash \in BOOLEAN
    /\ snapshots = NoSnapshots
    /\ handlers = [t \in EventType |-> <<>>]
    /\ running = FALSE
    /\ thread = 0
    /\ threads = <<>>
    /\ ret = NoCall
    /\ npolls = 0
    /\ dirtyPoll = FALSE
    /\ phase = "idle"
    /\ group_handlers = [t \in EventType |-> <<>>]
    /\ watchers = <<>>

\* FileWatcher.__init__(path) with the default filter.
New(names) == NewWith(names, DefaultPatterns, DefaultIgnorePatterns)

(* ------------------------ the world outside ---------------------------- *)

\* History: pristine marks the first thread of a session from its baseline
\* scan to the end of its first cycle, for as long as the directory has not
\* changed since that scan began. A change of the directory ends it.
MarkDirty(ths) ==
    [i \in DOMAIN ths |-> [ths[i] EXCEPT !.pristine = FALSE]]

\* Another process writes, touches, creates or deletes an entry named in
\* names.
FsChange(names) ==
    /\ \E p \in names, e \in Entries :
        /\ e # fs[p]
        /\ fs' = [fs EXCEPT ![p] = e]
    /\ threads' = MarkDirty(threads)
    /\ dirtyPoll' = (npolls > 0)
    /\ ret' = NoCall
    /\ UNCHANGED <<patterns, ignore_patterns, group_handlers, watchers,
                   use_hash, snapshots, handlers, running, thread, npolls, phase>>

\* What can happen to the directory in the middle of one _scan: nothing, or
\* a listed file vanishes before from_path looks at it ("vanish": from_path
\* sees path.exists() false), or it vanishes inside from_path between
\* path.exists() and path.stat() ("raise": stat raises FileNotFoundError).
Races(f) ==
    {[kind |-> "none", path |-> "-"]}
        \cup [kind : {"vanish", "raise"},
              path : {p \in Paths : f[p].exists /\ _matches(p)}]

\* The directory after the race.
After(f, race) ==
    IF race.kind = "none" THEN f ELSE [f EXCEPT ![race.path] = NoFile]

(* ------------------------- calls on the session ------------------------ *)

Min(a, b) == IF a < b THEN a ELSE b

\* What the callbacks of one list do when called: element i tells whether
\* the i-th callback raises an Exception.
Outcomes(n) == [1..n -> BOOLEAN]

\* Faulty variant of _emit: without the try/except the first callback that
\* raises ends the loop over the list.
_emit_unguarded(event, raises) ==
    LET hs == handlers[event.type]
        upto == IF \E i \in DOMAIN hs : raises[i]
                THEN CHOOSE i \in DOMAIN hs :
                        raises[i] /\ \A j \in 1..(i - 1) : ~raises[j]
                ELSE Len(hs)
    IN  [i \in 1..upto |-> [handler |-> hs[i], raised |-> raises[i]]]

\* FileWatcher._emit(event): the calls it makes, in order. Each callback of
\* the list of the event's type is called inside try/except Exception, so
\* the loop goes on to the next callback whether or not this one raised.
_emit(event, raises) ==
    LET hs == handlers[event.type]
    IN  [i \in DOMAIN hs |-> [handler |-> hs[i], raised |-> raises[i]]]

\* self._emit(event) for each event of a list, no callback raising: the
\* calls made, in order.
RECURSIVE EmitAll(_)
EmitAll(events) ==
    IF events = <<>> THEN <<>>
    ELSE _emit(Head(events),
               [i \in 1..Len(handlers[Head(events).type]) |-> FALSE])
            \o EmitAll(Tail(events))

\* Faulty variant of poll_once: the events are dispatched to the callbacks
\* before they are returned, as the loop does.
poll_once_dispatching ==
    \E race \in Races(fs) :
        LET current == _scan(fs, After(fs, race), use_hash)
            call    == [NoCall EXCEPT !.op = "poll_once",
                                      !.prev = snapshots,
                                      !.n = Min(npolls + 1, MaxPolls),
                                      !.quiet = ~dirtyPoll /\ race.kind = "none",
                                      !.fresh = (threads = <<>>)]
        IN  /\ fs' = After(fs, race)
            /\ npolls' = IF race.kind = "raise" THEN npolls
                          ELSE Min(npolls + 1, MaxPolls)
            /\ dirtyPoll' = (race.kind # "none" /\ npolls' > 0)
            /\ threads' = IF race.kind = "none" THEN threads ELSE MarkDirty(threads)
            /\ IF race.kind = "raise"
               THEN /\ ret' = [call EXCEPT !.raised = TRUE]
                    /\ UNCHANGED snapshots
               ELSE IF snapshots = NoSnapshots
               THEN /\ snapshots' = current
                    /\ ret' = [call EXCEPT !.curr = current]
               ELSE /\ snapshots' = current
                    /\ \E events \in _check(snapshots, current, use_hash) :
                        ret' = [call EXCEPT !.curr = current, !.events = events,
                                            !.calls = EmitAll(events)]
            /\ UNCHANGED <<patterns, ignore_patterns, group_handlers, watchers,
                           use_hash, handlers, running, thread, phase>>

\* Faulty variant of poll_once: no baseline branch, every call returns
\* _check().
poll_once_no_baseline ==
    \E race \in Races(fs) :
        LET current == _scan(fs, After(fs, race), use_hash)
            call    == [NoCall EXCEPT !.op = "poll_once",
                                      !.prev = snapshots,
                                      !.n = Min(npolls + 1, MaxPolls),
                                      !.quiet = ~dirtyPoll /\ race.kind = "none",
                                      !.fresh = (threads = <<>>)]
        IN  /\ fs' = After(fs, race)
            /\ npolls' = IF race.kind = "raise" THEN npolls
                          ELSE Min(npolls + 1, MaxPolls)
            /\ dirtyPoll' = (race.kind # "none" /\ npolls' > 0)
            /\ threads' = IF race.kind = "none" THEN threads ELSE MarkDirty(threads)
            /\ IF race.kind = "raise"
               THEN /\ ret' = [call EXCEPT !.raised = TRUE]
                    /\ UNCHANGED snapshots
               ELSE /\ snapshots' = current
                    /\ \E events \in _check(snapshots, current, use_hash) :
                        ret' = [call EXCEPT !.curr = current, !.events = events]
            /\ UNCHANGED <<patterns, ignore_patterns, group_handlers, watchers,
                           use_hash, handlers, running, thread, phase>>

\* FileWatcher.poll_once(): with no stored snapshot (an empty dict is
\* falsy) it stores a scan and returns []; otherwise it returns _check().
\* A FileNotFoundError raised by the scan leaves the session as it was.
poll_once ==
    \E race \in Races(fs) :
        LET current == _scan(fs, After(fs, race), use_hash)
            call    == [NoCall EXCEPT !.op = "poll_once",
                                      !.prev = snapshots,
                                      !.n = Min(npolls + 1, MaxPolls),
                                      !.quiet = ~dirtyPoll /\ race.kind = "none",
                                      !.fresh = (threads = <<>>)]
        IN  /\ fs' = After(fs, race)
            /\ npolls' = IF race.kind = "raise" THEN npolls
                          ELSE Min(npolls + 1, MaxPolls)
            /\ dirtyPoll' = (race.kind # "none" /\ npolls' > 0)
            /\ threads' = IF race.kind = "none" THEN threads ELSE MarkDirty(threads)
            /\ IF race.kind = "raise"
               THEN /\ ret' = [call EXCEPT !.raised = TRUE]
                    /\ UNCHANGED snapshots
               ELSE IF snapshots = NoSnapshots
               THEN /\ snapshots' = current
                    /\ ret' = [call EXCEPT !.curr = current]
               ELSE /\ snapshots' = current
                    /\ \E events \in _check(snapshots, current, use_hash) :
                        ret' = [call EXCEPT !.curr = current, !.events = events]
            /\ UNCHANGED <<patterns, ignore_patterns, group_handlers, watchers,
                           use_hash, handlers, running, thread, phase>>

\* History: the files in the directory at the moment start() returns, kept
\* by the new thread until it has taken its baseline.
Present(f) == {p \in Paths : f[p].exists}

\* Faulty variant of start: the test of _running is missing.
start_unguarded ==
    /\ Len(threads) < MaxThreads
    /\ running' = TRUE
    /\ threads' = Append(threads, [NewThread EXCEPT !.born = Present(fs)])
    /\ thread' = Len(threads) + 1
    /\ ret' = [NoCall EXCEPT !.op = "start"]
    /\ phase' = IF phase = "idle" THEN "running" ELSE phase
    /\ UNCHANGED <<patterns, ignore_patterns, group_handlers, watchers,
                   fs, use_hash, snapshots, handlers, npolls, dirtyPoll>>

\* FileWatcher.start(): a no-op while _running is set, else it sets the
\* flag and spawns a daemon thread running _poll.
start ==
    IF running
    THEN /\ ret' = [NoCall EXCEPT !.op = "start", !.noop = TRUE]
         /\ UNCHANGED <<patterns, ignore_patterns, group_handlers, watchers,
                        fs, use_hash, snapshots, handlers, running, thread, threads,
                        npolls, dirtyPoll, phase>>
    ELSE /\ Len(threads) < MaxThreads
         /\ running' = TRUE
         /\ threads' = Append(threads, [NewThread EXCEPT !.born = Present(fs)])
         /\ thread' = Len(threads) + 1
         /\ ret' = [NoCall EXCEPT !.op = "start"]
         /\ phase' = IF phase = "idle" THEN "running" ELSE phase
         /\ UNCHANGED <<patterns, ignore_patterns, group_handlers, watchers,
                        fs, use_hash, snapshots, handlers, npolls, dirtyPoll>>

\* FileWatcher.stop(): clears _running and joins the last thread for at
\* most two seconds; it returns whether or not the thread has ended.
stop ==
    /\ running' = FALSE
    /\ ret' = [NoCall EXCEPT !.op = "stop"]
    /\ phase' = IF phase = "running" THEN "stopped" ELSE phase
    /\ UNCHANGED <<patterns, ignore_patterns, group_handlers, watchers,
                   fs, use_hash, snapshots, handlers, thread, threads, npolls, dirtyPoll>>

\* The callbacks a caller registers.
Handlers == {"h1", "h2"}

\* FileWatcher.on(event_type, handler): appends to that type's list.
on(event_type, handler) ==
    /\ Len(handlers[event_type]) < MaxHandlers
    /\ handlers' = [handlers EXCEPT ![event_type] = Append(@, handler)]
    /\ ret' = [NoCall EXCEPT !.op = "on", !.etype = event_type,
                              !.handler = handler]
    /\ UNCHANGED <<patterns, ignore_patterns, group_handlers, watchers,
                   fs, use_hash, snapshots, running, thread, threads, npolls,
                   dirtyPoll, phase>>

\* FileWatcher.on_created(handler): on(EventType.CREATED, handler).
on_created == \E handler \in Handlers : on("created", handler)

\* FileWatcher.on_any(handler): appends to the list of every event type.
on_any ==
    \E handler \in Handlers :
        /\ \A t \in EventType : Len(handlers[t]) < MaxHandlers
        /\ handlers' = [t \in EventType |-> Append(handlers[t], handler)]
        /\ ret' = [NoCall EXCEPT !.op = "on_any", !.handler = handler]
        /\ UNCHANGED <<patterns, ignore_patterns, group_handlers, watchers,
                       fs, use_hash, snapshots, running, thread, threads,
                       npolls, dirtyPoll, phase>>

\* Faulty variant of check: the events are returned but the capture is not
\* stored, so the next diff is made against the old capture.
check_not_stored ==
    \E race \in Races(fs) :
        LET current == _scan(fs, After(fs, race), use_hash)
            call    == [NoCall EXCEPT !.op = "_check", !.prev = snapshots]
        IN  /\ fs' = After(fs, race)
            /\ IF race.kind = "raise"
               THEN ret' = [call EXCEPT !.raised = TRUE]
               ELSE \E events \in _check(snapshots, current, use_hash) :
                        ret' = [call EXCEPT !.curr = current, !.events = events]
            /\ UNCHANGED <<patterns, ignore_patterns, group_handlers, watchers,
                           snapshots, use_hash, handlers, running, thread,
                           threads, npolls, dirtyPoll, phase>>

\* FileWatcher._check() called on its own: scan, diff against the stored
\* capture, store the new capture, return the events. A FileNotFoundError
\* raised by the scan leaves the session as it was.
check ==
    \E race \in Races(fs) :
        LET current == _scan(fs, After(fs, race), use_hash)
            call    == [NoCall EXCEPT !.op = "_check", !.prev = snapshots]
        IN  /\ fs' = After(fs, race)
            /\ IF race.kind = "raise"
               THEN /\ ret' = [call EXCEPT !.raised = TRUE]
                    /\ UNCHANGED snapshots
               ELSE /\ snapshots' = current
                    /\ \E events \in _check(snapshots, current, use_hash) :
                        ret' = [call EXCEPT !.curr = current, !.events = events]
            /\ UNCHANGED <<patterns, ignore_patterns, group_handlers, watchers,
                           use_hash, handlers, running, thread, threads, npolls,
                           dirtyPoll, phase>>

(* ------------------------------ MultiWatcher --------------------------- *)

\* The frame of every MultiWatcher method: the FileWatcher modelled above is
\* not a member of the group.
SessionVars ==
    <<fs, use_hash, snapshots, handlers, running, thread, threads, npolls,
      dirtyPoll, phase, patterns, ignore_patterns>>

\* watcher.on(event_type, handler) for each handler of hs in turn, on the
\* list registry of one event type.
RECURSIVE OnEach(_, _)
OnEach(registry, hs) ==
    IF hs = <<>> THEN registry
    ELSE OnEach(Append(registry, Head(hs)), Tail(hs))

\* Faulty variant of MultiWatcher_watch: the new session is added without
\* the callbacks already registered on the group.
MultiWatcher_watch_bare ==
    /\ Len(watchers) < MaxWatchers
    /\ watchers' = Append(watchers, [t \in EventType |-> <<>>])
    /\ ret' = [NoCall EXCEPT !.op = "MultiWatcher.watch"]
    /\ UNCHANGED <<group_handlers, SessionVars>>

\* MultiWatcher.watch(path): a new FileWatcher, on which every callback of
\* the group is registered, list by list, before it joins the group.
MultiWatcher_watch ==
    /\ Len(watchers) < MaxWatchers
    /\ watchers' = Append(watchers,
                          [t \in EventType |-> OnEach(<<>>, group_handlers[t])])
    /\ ret' = [NoCall EXCEPT !.op = "MultiWatcher.watch"]
    /\ UNCHANGED <<group_handlers, SessionVars>>

\* MultiWatcher.on(event_type, handler): appends to the group's list, then
\* calls on(event_type, handler) on every member.
MultiWatcher_on(event_type, handler) ==
    /\ Len(group_handlers[event_type]) < MaxHandlers
    /\ group_handlers' = [group_handlers EXCEPT ![event_type] = Append(@, handler)]
    /\ watchers' = [i \in DOMAIN watchers |->
                      [watchers[i] EXCEPT ![event_type] = Append(@, handler)]]
    /\ ret' = [NoCall EXCEPT !.op = "MultiWatcher.on", !.etype = event_type,
                              !.handler = handler]
    /\ UNCHANGED SessionVars

\* MultiWatcher.on_any(handler): self.on(t, handler) for every event type.
MultiWatcher_on_any ==
    \E handler \in Handlers :
        /\ \A t \in EventType : Len(group_handlers[t]) < MaxHandlers
        /\ group_handlers' = [t \in EventType |-> Append(group_handlers[t], handler)]
        /\ watchers' = [i \in DOMAIN watchers |->
                          [t \in EventType |-> Append(watchers[i][t], handler)]]
        /\ ret' = [NoCall EXCEPT !.op = "MultiWatcher.on_any", !.handler = handler]
        /\ UNCHANGED SessionVars

(* ----------------------------- the loop thread ------------------------- *)

\* A thread that has left _poll, by return or by an exception: its locals
\* are gone.
Ended(th, how) ==
    [NewThread EXCEPT !.pc = how]

\* _poll, first line: self._snapshots = self._scan().
PollBaseline(t) ==
    /\ threads[t].pc = "baseline"
    /\ \E race \in Races(fs) :
        /\ fs' = After(fs, race)
        /\ dirtyPoll' = (dirtyPoll \/ (race.kind # "none" /\ npolls > 0))
        /\ LET ths == IF race.kind = "none" THEN threads ELSE MarkDirty(threads)
           IN  IF race.kind = "raise"
               THEN /\ threads' = [ths EXCEPT ![t] = Ended(@, "crashed")]
                    /\ UNCHANGED snapshots
               ELSE /\ snapshots' = _scan(fs, After(fs, race), use_hash)
                    /\ threads' = [ths EXCEPT ![t] =
                          [@ EXCEPT !.pc = "test",
                                    !.born = {},
                                    !.pristine = (t = 1 /\ race.kind = "none")]]
    /\ ret' = NoCall
    /\ UNCHANGED <<patterns, ignore_patterns, group_handlers, watchers,
                   use_hash, handlers, running, thread, npolls, phase>>

\* Faulty variant of PollTest: the loop never looks at self._running.
PollTest_forever(t) ==
    /\ threads[t].pc = "test"
    /\ threads' = [threads EXCEPT ![t] =
          [NewThread EXCEPT !.pc = "scan", !.pristine = threads[t].pristine]]
    /\ ret' = NoCall
    /\ UNCHANGED <<patterns, ignore_patterns, group_handlers, watchers,
                   fs, use_hash, snapshots, handlers, running, thread, npolls, dirtyPoll,
                   phase>>

\* _poll, the loop test: while self._running.
PollTest(t) ==
    /\ threads[t].pc = "test"
    /\ threads' = [threads EXCEPT ![t] =
          IF running
          THEN [NewThread EXCEPT !.pc = "scan",
                                 !.pristine = threads[t].pristine]
          ELSE Ended(@, "done")]
    /\ ret' = NoCall
    /\ UNCHANGED <<patterns, ignore_patterns, group_handlers, watchers,
                   fs, use_hash, snapshots, handlers, running, thread, npolls, dirtyPoll,
                   phase>>

\* _check in the loop, first half: current = self._scan().
PollScan(t) ==
    /\ threads[t].pc = "scan"
    /\ \E race \in Races(fs) :
        /\ fs' = After(fs, race)
        /\ dirtyPoll' = (dirtyPoll \/ (race.kind # "none" /\ npolls > 0))
        /\ LET ths == IF race.kind = "none" THEN threads ELSE MarkDirty(threads)
           IN  threads' = [ths EXCEPT ![t] =
                  IF race.kind = "raise"
                  THEN Ended(@, "crashed")
                  ELSE [@ EXCEPT !.pc = "diff",
                                 !.current = _scan(fs, After(fs, race), use_hash)]]
    /\ ret' = NoCall
    /\ UNCHANGED <<patterns, ignore_patterns, group_handlers, watchers,
                   use_hash, snapshots, handlers, running, thread, npolls, phase>>

\* _check in the loop, second half: the three loops over self._snapshots
\* and current, then self._snapshots = current.
PollDiff(t) ==
    /\ threads[t].pc = "diff"
    /\ \E events \in _check(snapshots, threads[t].current, use_hash) :
        threads' = [threads EXCEPT ![t] =
            [@ EXCEPT !.pc = IF events = <<>> THEN "sleep" ELSE "emit",
                      !.prev_paths = DOMAIN snapshots,
                      !.events = events]]
    /\ snapshots' = threads[t].current
    /\ ret' = NoCall
    /\ UNCHANGED <<patterns, ignore_patterns, group_handlers, watchers,
                   fs, use_hash, handlers, running, thread, npolls, dirtyPoll, phase>>

\* Faulty variant of PollEmit: the events are dispatched back to front.
PollEmit_reversed(t) ==
    /\ threads[t].pc = "emit"
    /\ LET n    == Len(threads[t].events)
           next == threads[t].events[n - Len(threads[t].delivered)]
           sent == Append(threads[t].delivered, next)
       IN  \E raises \in Outcomes(Len(handlers[next.type])) :
            threads' = [threads EXCEPT ![t] =
              [@ EXCEPT !.delivered = sent,
                        !.calls = _emit(next, raises),
                        !.pc = IF Len(sent) = n THEN "sleep" ELSE "emit"]]
    /\ ret' = NoCall
    /\ UNCHANGED <<patterns, ignore_patterns, group_handlers, watchers,
                   fs, use_hash, snapshots, handlers, running, thread, npolls,
                   dirtyPoll, phase>>

\* _poll, one turn of: for event in events: self._emit(event).
PollEmit(t) ==
    /\ threads[t].pc = "emit"
    /\ LET next == threads[t].events[Len(threads[t].delivered) + 1]
           sent == Append(threads[t].delivered, next)
       IN  \E raises \in Outcomes(Len(handlers[next.type])) :
            threads' = [threads EXCEPT ![t] =
              [@ EXCEPT !.delivered = sent,
                        !.calls = _emit(next, raises),
                        !.pc = IF Len(sent) = Len(threads[t].events)
                                 THEN "sleep" ELSE "emit"]]
    /\ ret' = NoCall
    /\ UNCHANGED <<patterns, ignore_patterns, group_handlers, watchers,
                   fs, use_hash, snapshots, handlers, running, thread, npolls, dirtyPoll,
                   phase>>

\* _poll: time.sleep(self.poll_interval) returns.
PollSleep(t) ==
    /\ threads[t].pc = "sleep"
    /\ threads' = [threads EXCEPT ![t] = [NewThread EXCEPT !.pc = "test"]]
    /\ ret' = NoCall
    /\ UNCHANGED <<patterns, ignore_patterns, group_handlers, watchers,
                   fs, use_hash, snapshots, handlers, running, thread, npolls, dirtyPoll,
                   phase>>

\* One step of one loop thread.
_poll ==
    \E t \in DOMAIN threads :
        \/ PollBaseline(t)
        \/ PollTest(t)
        \/ PollScan(t)
        \/ PollDiff(t)
        \/ PollEmit(t)
        \/ PollSleep(t)

(* --------------------------- specifications --------------------------- *)

\* A session under the single-owner discipline: it is either polled by its
\* caller with poll_once() or started once and driven by its loop thread,
\* and not started again after stop().
Init == New(Names)

Next ==
    \/ FsChange(Names)
    \/ (threads = <<>> /\ poll_once)
    \/ (npolls = 0 /\ phase # "stopped" /\ start)
    \/ stop
    \/ _poll

Spec == Init /\ [][Next]_vars

\* The name in use in the directory of a session that is restarted.
OneName == {"x.txt"}

\* A session started and stopped in any order, start() after stop()
\* included, while other processes change one entry of its directory.
InitRestart == New(OneName)

NextRestart ==
    \/ FsChange(OneName)
    \/ start
    \/ stop
    \/ _poll

SpecRestart == InitRestart /\ [][NextRestart]_vars

\* Every loop thread of the session has left _poll.
AllEnded == \A t \in DOMAIN threads : threads[t].pc \in {"done", "crashed"}

\* A session with callbacks registered before its first start, started and
\* stopped in any order by a caller that starts it again only once the previous loop thread
\* has ended (the join in stop() succeeded).
InitJoined == New(OneName)

NextJoined ==
    \/ FsChange(OneName)
    \/ (threads = <<>> /\ on_any)
    \/ ((running \/ AllEnded) /\ start)
    \/ stop
    \/ _poll

SpecJoined == InitJoined /\ [][NextJoined]_vars

\* The captures a scan can produce with hashing on or off.
Captures(hashing) ==
    UNION {{_scan(f, After(f, race), hashing) : race \in Races(f)} :
              f \in Directories(Names)}

\* _check as a function of its inputs: a session holding any stored
\* capture, in either mode, diffs it against a scan of any directory.
InitDiff ==
    /\ patterns = DefaultPatterns
    /\ ignore_patterns = DefaultIgnorePatterns
    /\ fs \in Directories(Names)
    /\ use_hash \in BOOLEAN
    /\ snapshots \in Captures(use_hash)
    /\ handlers = [t \in EventType |-> <<>>]
    /\ running = FALSE
    /\ thread = 0
    /\ threads = <<>>
    /\ ret = NoCall
    /\ npolls = 0
    /\ dirtyPoll = FALSE
    /\ phase = "idle"
    /\ group_handlers = [t \in EventType |-> <<>>]
    /\ watchers = <<>>

NextDiff ==
    \/ FsChange(Names)
    \/ check

SpecDiff == InitDiff /\ [][NextDiff]_vars

(* ------------------------------ properties ----------------------------- *)

\* How many events of the list are FileEvent(type, path).
Count(events, type, path) ==
    Cardinality({i \in DOMAIN events : events[i] = FileEvent(type, path)})

\* How many events of the list are about path.
CountPath(events, path) ==
    Cardinality({i \in DOMAIN events : events[i].path = path})

\* The place of an event type in the order created, deleted, modified.
Rank(type) ==
    CASE type = "created" -> 1 [] type = "deleted" -> 2 [] OTHER -> 3

\* Every created event precedes every deleted one, and every deleted event
\* every modified one.
Grouped(events) ==
    \A i, j \in DOMAIN events :
        i < j => Rank(events[i].type) <= Rank(events[j].type)

\* A thread that has finished the diff of a cycle and not yet begun the next.
AfterDiff(t) == threads[t].pc \in {"emit", "sleep"}

\* C1: on a fresh watcher the first poll_once() that returns gives no
\* events, a later poll_once() made while the directory has not changed
\* since the previous poll_once() began gives no events either, and the
\* first loop cycle after start() produces no events while the directory
\* has not changed since the loop's baseline scan began.
C1_BaselineRule ==
    /\ (ret.op = "poll_once" /\ ret.fresh /\ ~ret.raised
            /\ (ret.n = 1 \/ ret.quiet))
          => ret.events = <<>>
    /\ \A t \in DOMAIN threads :
          (AfterDiff(t) /\ threads[t].pristine) => threads[t].events = <<>>

\* A second poll_once() on an unchanged directory that holds files.
C1_Witness ==
    /\ ret.op = "poll_once" /\ ret.fresh /\ ~ret.raised
    /\ ret.n = 2 /\ ret.quiet
    /\ ret.curr # NoSnapshots
    /\ ret.events = <<>>

\* C2: every cycle after the baseline cycle, a poll_once() call or a loop
\* iteration, reports every path present in its capture and absent from the
\* previous capture with exactly one created event, also when the previous
\* capture was empty.
C2_CreatedReported ==
    /\ (ret.op = "poll_once" /\ ~ret.raised /\ ret.n >= 2)
          => \A p \in DOMAIN ret.curr \ DOMAIN ret.prev :
                Count(ret.events, "created", p) = 1
    /\ \A t \in DOMAIN threads :
          AfterDiff(t)
             => \A p \in DOMAIN threads[t].current \ threads[t].prev_paths :
                   Count(threads[t].events, "created", p) = 1

\* C3: the events _check returns hold exactly one created event for every
\* path in current and not in previous and none for any other path, and
\* exactly one deleted event for every path in previous and not in current
\* and none for any other path.
C3_CreatedDeletedExact ==
    (ret.op = "_check" /\ ~ret.raised)
       => \A p \in Paths :
            /\ Count(ret.events, "created", p)
                  = IF p \in DOMAIN ret.curr \ DOMAIN ret.prev THEN 1 ELSE 0
            /\ Count(ret.events, "deleted", p)
                  = IF p \in DOMAIN ret.prev \ DOMAIN ret.curr THEN 1 ELSE 0

\* One _check that reports a created and a deleted path.
C3_Witness ==
    /\ ret.op = "_check" /\ ~ret.raised
    /\ \E i \in DOMAIN ret.events : ret.events[i].type = "created"
    /\ \E i \in DOMAIN ret.events : ret.events[i].type = "deleted"

\* C4: in metadata mode and in hashing mode, _check on a capture identical
\* to the stored one returns no events.
C4_IdenticalNoEvents ==
    (ret.op = "_check" /\ ~ret.raised /\ ret.prev = ret.curr)
       => ret.events = <<>>

\* _check on an unchanged directory that holds files.
C4_Witness ==
    /\ ret.op = "_check" /\ ~ret.raised
    /\ ret.prev = ret.curr
    /\ ret.curr # NoSnapshots
    /\ ret.events = <<>>

\* C5: with use_hash off, a path present in both captures gets exactly one
\* modified event and no other event when its mtime or its size differs,
\* and no event at all when both are equal.
C5_MetadataMode ==
    (ret.op = "_check" /\ ~ret.raised /\ ~use_hash)
       => \A p \in DOMAIN ret.prev \cap DOMAIN ret.curr :
            /\ Count(ret.events, "modified", p)
                  = IF ret.prev[p].mtime # ret.curr[p].mtime
                       \/ ret.prev[p].size # ret.curr[p].size
                    THEN 1 ELSE 0
            /\ CountPath(ret.events, p) = Count(ret.events, "modified", p)

\* A file whose size alone changed is reported modified in metadata mode.
C5_Witness ==
    /\ ret.op = "_check" /\ ~ret.raised /\ ~use_hash
    /\ \E p \in DOMAIN ret.prev \cap DOMAIN ret.curr :
          /\ ret.prev[p].mtime = ret.curr[p].mtime
          /\ ret.prev[p].size # ret.curr[p].size
          /\ Count(ret.events, "modified", p) = 1

\* C6: with use_hash on, a file present in both captures whose digest is
\* the same and whose mtime differs gets no modified event, and a file whose
\* digest differs gets exactly one.
C6_HashingMode ==
    (ret.op = "_check" /\ ~ret.raised /\ use_hash)
       => \A p \in DOMAIN ret.prev \cap DOMAIN ret.curr :
            (ret.prev[p].exists /\ ret.curr[p].exists)
               => /\ (ret.prev[p].hash = ret.curr[p].hash
                         /\ ret.prev[p].mtime # ret.curr[p].mtime)
                        => Count(ret.events, "modified", p) = 0
                  /\ ret.prev[p].hash # ret.curr[p].hash
                        => Count(ret.events, "modified", p) = 1

\* A file rewritten with the same bytes at another time, hashing on.
C6_Witness ==
    /\ ret.op = "_check" /\ ~ret.raised /\ use_hash
    /\ \E p \in DOMAIN ret.prev \cap DOMAIN ret.curr :
          /\ ret.prev[p].exists /\ ret.curr[p].exists
          /\ ret.prev[p].hash = ret.curr[p].hash
          /\ ret.prev[p].mtime # ret.curr[p].mtime
          /\ CountPath(ret.events, p) = 0

\* C7: with use_hash on, the digests of a path are compared only when both
\* are non-empty; when either is the empty sentinel the path is modified
\* exactly when its mtime or its size differs.
C7_EmptyDigestFallsBack ==
    (ret.op = "_check" /\ ~ret.raised /\ use_hash)
       => \A p \in DOMAIN ret.prev \cap DOMAIN ret.curr :
            Count(ret.events, "modified", p)
               = IF ret.prev[p].hash # "" /\ ret.curr[p].hash # ""
                 THEN (IF ret.prev[p].hash # ret.curr[p].hash THEN 1 ELSE 0)
                 ELSE (IF ret.prev[p].mtime # ret.curr[p].mtime
                          \/ ret.prev[p].size # ret.curr[p].size
                       THEN 1 ELSE 0)

\* C8: in the list a cycle returns, and in the order the loop dispatches
\* it, created events come before deleted ones and deleted ones before
\* modified ones; the loop dispatches the list front to back.
C8_Ordering ==
    /\ Grouped(ret.events)
    /\ \A t \in DOMAIN threads :
          /\ Grouped(threads[t].events)
          /\ Grouped(threads[t].delivered)
          /\ Len(threads[t].delivered) <= Len(threads[t].events)
          /\ threads[t].delivered
                = SubSeq(threads[t].events, 1, Len(threads[t].delivered))

\* A loop cycle that has dispatched a created event and then a deleted one.
C8_Witness ==
    \E t \in DOMAIN threads :
        /\ Len(threads[t].delivered) = 2
        /\ threads[t].delivered[1].type = "created"
        /\ threads[t].delivered[2].type = "deleted"

\* C9: start() on a running session changes nothing: no thread is spawned,
\* the stored snapshots, the handler registry, the flag and the threads
\* (and so what they dispatch) stay as they were.
C9_StartIdempotent ==
    [][(running /\ start)
          => /\ ret'.noop
             /\ UNCHANGED <<fs, use_hash, snapshots, handlers, running,
                            thread, threads>>]_vars

\* start() has returned on a session that was already running, with a
\* handler registered and its loop thread alive.
C9_Witness ==
    /\ ret.op = "start" /\ ret.noop
    /\ running
    /\ handlers["created"] # <<>>
    /\ \E t \in DOMAIN threads : threads[t].pc \notin {"done", "crashed"}

\* C10: the lifecycle is idle, running, stopped: once stop() has been
\* called on a running session, no start() makes it running again.
C10_NoRestart == phase = "stopped" => ~running

\* A thread that is inside the while loop of _poll.
InLoop(t) == threads[t].pc \in {"test", "scan", "diff", "emit", "sleep"}

\* C11: after any sequence of start() and stop() calls, at most one loop
\* thread of the session is executing the polling loop.
C11_OneLoopThread ==
    Cardinality({t \in DOMAIN threads : InLoop(t)}) <= 1

\* A thread that has taken the capture of a cycle and has not yet delivered
\* all of that cycle's events.
MidCycle(t) == threads[t].pc \in {"diff", "emit"}

\* A thread whose next step assigns self._snapshots.
AboutToStore(t) == threads[t].pc \in {"baseline", "diff"}

\* C12: cycles of one session are strictly sequential: no capture is taken
\* while the events of another capture are still undelivered, and no two
\* cycles are about to write the stored snapshot set at the same time.
C12_SequentialCycles ==
    \A t, u \in DOMAIN threads :
        t # u => /\ ~(MidCycle(t) /\ MidCycle(u))
                 /\ ~(AboutToStore(t) /\ AboutToStore(u))

\* A session that is started, then stopped, and not started again, while
\* other processes change one entry of its directory. The loop thread is
\* scheduled fairly: a thread that can take a step eventually takes one
\* (time.sleep returns, a scan returns or raises, a handler returns).
InitStop == New(OneName)

NextStop ==
    \/ FsChange(OneName)
    \/ (phase # "stopped" /\ start)
    \/ stop
    \/ _poll

SpecStop == InitStop /\ [][NextStop]_vars /\ WF_vars(_poll)

\* How far a loop thread is from leaving _poll once _running is cleared.
StopRank(th) ==
    CASE th.pc = "baseline" -> 6
      [] th.pc = "scan"     -> 5
      [] th.pc = "diff"     -> 4
      [] th.pc = "emit"     -> 3
      [] th.pc = "sleep"    -> 2
      [] th.pc = "test"     -> 1
      [] OTHER              -> 0

\* C13: after stop() on a running session that is not started again, the
\* loop thread finishes at most the cycle in progress (it only moves towards
\* the end of _poll and never from the loop test to a new capture) and
\* eventually terminates; stop() returns without waiting for that, and a
\* stop() on a session whose flag is already clear changes nothing.
C13_StopHalts ==
    /\ [][(~running /\ ~running') =>
            \A t \in DOMAIN threads :
                /\ StopRank(threads'[t]) <= StopRank(threads[t])
                /\ threads[t].pc = "test" => threads'[t].pc # "scan"]_vars
    /\ [][(~running /\ stop) =>
            UNCHANGED <<fs, use_hash, snapshots, handlers, running, thread,
                        threads, npolls, dirtyPoll, phase>>]_vars
    /\ (phase = "stopped") ~> AllEnded

\* A stopped session whose loop thread has returned from _poll, seen by a
\* second stop().
C13_Witness ==
    /\ phase = "stopped"
    /\ threads # <<>>
    /\ \A t \in DOMAIN threads : threads[t].pc = "done"
    /\ ret.op = "stop"

\* A session on which callbacks are registered at any time, for one event
\* type (on_created) or for all of them (on_any), started once and driven
\* by its loop thread while other processes change one entry of its
\* directory.
InitDispatch == New(OneName)

NextDispatch ==
    \/ FsChange(OneName)
    \/ on_created
    \/ on_any
    \/ (threads = <<>> /\ start)
    \/ _poll

SpecDispatch == InitDispatch /\ [][NextDispatch]_vars

\* The callbacks called, in call order.
Called(calls) == [i \in DOMAIN calls |-> calls[i].handler]

\* C14: every event the loop dispatches is passed to every callback
\* registered for its type, in registration order (each registration call
\* appends its callback to the end of the list of its type, or of every
\* type for on_any, and nothing else changes the registry); a callback that
\* raises stops neither the later callbacks of the same event nor the loop
\* thread.
C14_EveryHandlerCalled ==
    /\ [][\A t \in DOMAIN threads :
            (t \in DOMAIN threads' /\ threads[t].pc = "emit"
                /\ threads'[t].delivered # threads[t].delivered) =>
              LET event == threads'[t].delivered[Len(threads'[t].delivered)]
              IN  /\ Called(threads'[t].calls) = handlers[event.type]
                  /\ threads'[t].pc \in {"emit", "sleep"}]_vars
    /\ [][handlers' # handlers =>
            \/ /\ ret'.op = "on"
               /\ handlers' = [handlers EXCEPT ![ret'.etype] =
                                  Append(@, ret'.handler)]
            \/ /\ ret'.op = "on_any"
               /\ handlers' = [ty \in EventType |->
                                  Append(handlers[ty], ret'.handler)]]_vars

\* A created event was delivered to two callbacks, h2 registered by on_any
\* before h1 registered by on_created; h2 raised and h1 was still called,
\* and the thread goes on to its sleep.
C14_Witness ==
    \E t \in DOMAIN threads :
        /\ threads[t].pc = "sleep"
        /\ threads[t].delivered # <<>>
        /\ threads[t].delivered[Len(threads[t].delivered)].type = "created"
        /\ handlers["created"] = <<"h2", "h1">>
        /\ handlers["deleted"] = <<"h2">>
        /\ threads[t].calls = <<[handler |-> "h2", raised |-> TRUE],
                                [handler |-> "h1", raised |-> FALSE]>>

\* A loop thread that has not left _poll.
Alive(t) == threads[t].pc \notin {"done", "crashed"}

\* C15: an entry that vanishes during a capture is left out of the snapshot
\* set and the capture completes: no stored snapshot is the placeholder of
\* a missing file, and whenever the running flag is set a loop thread is
\* still alive to perform cycles.
C15_ScanErrorsNotFatal ==
    /\ \A p \in DOMAIN snapshots : snapshots[p].exists
    /\ running => \E t \in DOMAIN threads : Alive(t)

\* A MultiWatcher on which sessions are added and callbacks registered, for
\* the created or the deleted events or for all events, in any order.
InitMulti == New({})

NextMulti ==
    \/ MultiWatcher_watch
    \/ \E event_type \in {"created", "deleted"}, handler \in Handlers :
          MultiWatcher_on(event_type, handler)
    \/ MultiWatcher_on_any

SpecMulti == InitMulti /\ [][NextMulti]_vars

\* C16: after any interleaving of watch(), on() and on_any() on a group,
\* the registry of every member equals the registry of the group: for every
\* event type, the callbacks registered on the group for it, each once per
\* registration and in registration order (a registration appends to the
\* end of the group's list of its type, or of every type for on_any).
C16_GroupRegistrations ==
    /\ [](\A i \in DOMAIN watchers : watchers[i] = group_handlers)
    /\ [][group_handlers' # group_handlers =>
            \/ /\ ret'.op = "MultiWatcher.on"
               /\ group_handlers' = [group_handlers EXCEPT ![ret'.etype] =
                                        Append(@, ret'.handler)]
            \/ /\ ret'.op = "MultiWatcher.on_any"
               /\ group_handlers' = [ty \in EventType |->
                                        Append(group_handlers[ty], ret'.handler)]]_vars

\* A session joins a group that already holds h2 for every event and then
\* h1 for created events.
C16_Witness ==
    /\ ret.op = "MultiWatcher.watch"
    /\ group_handlers["created"] = <<"h2", "h1">>
    /\ group_handlers["modified"] = <<"h2">>
    /\ Len(watchers) = MaxWatchers
    /\ watchers[Len(watchers)]["created"] = <<"h2", "h1">>

\* The names in use in the directory of a session with a filter.
FilterNames == {"a.txt", "b.log"}

\* The filters of the sessions: patterns=["*.txt"]; everything but logs;
\* text and logs but nothing named a.
Filters ==
    {[patterns |-> <<"*.txt">>, ignore_patterns |-> <<>>],
     [patterns |-> <<"*">>, ignore_patterns |-> <<"*.log">>],
     [patterns |-> <<"*.txt", "*.log">>, ignore_patterns |-> <<"a.*">>]}

\* A session constructed with a filter, polled by its caller or started
\* once and driven by its loop thread, while other processes change the
\* two entries of its directory.
InitFilter ==
    \E f \in Filters : NewWith(FilterNames, f.patterns, f.ignore_patterns)

NextFilter ==
    \/ FsChange(FilterNames)
    \/ (threads = <<>> /\ poll_once)
    \/ (npolls = 0 /\ threads = <<>> /\ start)
    \/ _poll

SpecFilter == InitFilter /\ [][NextFilter]_vars

\* The paths of the events of a list.
EventPaths(events) == {events[i].path : i \in DOMAIN events}

\* Every path in a snapshot set or an event the session holds or has just
\* returned.
SeenPaths ==
    DOMAIN snapshots \cup DOMAIN ret.prev \cup DOMAIN ret.curr
        \cup EventPaths(ret.events)
        \cup UNION {DOMAIN threads[t].current \cup EventPaths(threads[t].events)
                        \cup EventPaths(threads[t].delivered) :
                    t \in DOMAIN threads}

\* The filter as the claim states it: some include pattern matches and no
\* exclude pattern does.
Allowed(p) ==
    /\ \E i \in DOMAIN patterns : PathMatch(p, patterns[i])
    /\ ~\E i \in DOMAIN ignore_patterns : PathMatch(p, ignore_patterns[i])

\* C17: every path in a stored or returned snapshot set or in an event
\* matches an include pattern and no exclude pattern; with the include
\* pattern *.txt and a directory of a.txt and b.log only a.txt is ever seen.
C17_FilterCorrect ==
    /\ \A p \in SeenPaths : Allowed(p)
    /\ (patterns = <<"*.txt">> /\ ignore_patterns = <<>>) => SeenPaths \subseteq {"a.txt"}

\* A session that includes *.txt and *.log and excludes a.* has polled a
\* directory holding a.txt and b.log, and returned a modified event for
\* b.log.
C17_Witness ==
    /\ ignore_patterns = <<"a.*">>
    /\ fs["a.txt"].exists
    /\ fs["b.log"].exists
    /\ ret.op = "poll_once"
    /\ ret.events = <<FileEvent("modified", "b.log")>>
    /\ DOMAIN snapshots = {"b.log"}

\* A session with at most one callback, registered for every event before
\* the session is started, polled by its caller at any time, before, while and instead of being started, while
\* other processes change one entry of its directory.
InitPoll == New(OneName)

NextPoll ==
    \/ FsChange(OneName)
    \/ (handlers["created"] = <<>> /\ threads = <<>> /\ on_any)
    \/ poll_once
    \/ (threads = <<>> /\ start)
    \/ _poll

SpecPoll == InitPoll /\ [][NextPoll]_vars

\* The loop threads of the session, the history flag pristine left out.
Threads(ths) == [i \in DOMAIN ths |-> [ths[i] EXCEPT !.pristine = FALSE]]

\* C18: a poll_once() call makes one capture, of the directory as it is,
\* stores it, returns the events of the diff against the stored capture
\* without calling any registered callback, and leaves the running flag,
\* the loop thread and the callback registry as they were, started or not.
C18_PollOnceFrame ==
    [][ret'.op = "poll_once" =>
        /\ ret'.calls = <<>>
        /\ UNCHANGED <<running, thread, handlers>>
        /\ Threads(threads') = Threads(threads)
        /\ ~ret'.raised =>
              /\ ret'.curr = _scan(fs, fs', use_hash)
              /\ snapshots' = ret'.curr
              /\ snapshots # NoSnapshots =>
                    ret'.events \in _check(snapshots, ret'.curr, use_hash)]_vars

\* poll_once() on a session that was never started returns an event for
\* whose type a callback is registered.
C18_Witness ==
    /\ ret.op = "poll_once"
    /\ ret.events # <<>>
    /\ handlers[ret.events[1].type] # <<>>
    /\ ~running
    /\ threads = <<>>

\* C19: the baseline of the first start() of an idle session is the
\* directory as it is when start() returns: the baseline the loop thread
\* stores holds no file that was created after start() returned (such a
\* file is left for a created event of a later cycle).
C19_BaselineAtStart ==
    [][(threads # <<>> /\ threads[1].pc = "baseline" /\ threads'[1].pc = "test")
          => Present(fs') \cap DOMAIN snapshots' \subseteq threads[1].born]_vars

\* The paths of the events of one type in a list.
PathsOf(events, type) ==
    {events[i].path : i \in {j \in DOMAIN events : events[j].type = type}}

\* C20: after a completed _check the stored snapshot set is the capture of
\* that cycle, the previous paths plus the created paths minus the deleted
\* paths are the current paths, no path has more than one event, and no
\* event is of type moved.
C20_CycleAccounting ==
    (ret.op = "_check" /\ ~ret.raised)
       => /\ snapshots = ret.curr
          /\ (DOMAIN ret.prev \cup PathsOf(ret.events, "created"))
                \ PathsOf(ret.events, "deleted") = DOMAIN ret.curr
          /\ \A p \in Paths : CountPath(ret.events, p) <= 1
          /\ PathsOf(ret.events, "moved") = {}

\* One _check that reports a modified path and a created path.
C20_Witness ==
    /\ ret.op = "_check" /\ ~ret.raised
    /\ PathsOf(ret.events, "modified") # {}
    /\ PathsOf(ret.events, "created") # {}
    /\ snapshots = ret.curr

====
